---- MODULE Spec2Model ----
(***************************************************************************)
(* Credit card statement parser (src/parser.py, src/config.py).            *)
(*                                                                         *)
(* A CreditCardParser object holds pdf_path, text_content and issuer.      *)
(* parse() extracts the text of the PDF, identifies the issuer, runs four  *)
(* regex cascades and the transaction scan, and returns the result dict.   *)
(* Texts are TLA+ strings; a character is a string of length one.  The     *)
(* regular expressions are translated item by item and matched by a        *)
(* backtracking matcher with the priorities of Python's re module          *)
(* (ordered alternatives, greedy and lazy repetition).                     *)
(***************************************************************************)
EXTENDS Integers, Sequences, FiniteSets, TLC

VARIABLES
    pdf,               \* the file at pdf_path: [readable, pages]
    text_content,      \* self.text_content
    issuer,            \* self.issuer (Optional[str])
    pc,                \* position inside parse()
    fields,            \* the values computed so far for the result dict
    called,            \* the methods parse() has called in the current invocation
    result,            \* the dict returned by the last parse(), if any
    raised,            \* whether the last parse() ended by raising
    first              \* the dict the caller kept from the first parse() of this document, if any

vars == <<pdf, text_content, issuer, pc, fields, called, result, raised, first>>

----------------------------------------------------------------------------
(* Optional values: Python's None and a present value.                     *)

None == <<>>

Some(v) == <<v>>

----------------------------------------------------------------------------
(* Characters and character classes of the regular expressions.            *)

Char(s, i) == SubSeq(s, i, i)

UpperCase == "ABCDEFGHIJKLMNOPQRSTUVWXYZ"

LowerCase == "abcdefghijklmnopqrstuvwxyz"

Letters == {Char(UpperCase, i) : i \in 1..Len(UpperCase)} \cup
           {Char(LowerCase, i) : i \in 1..Len(LowerCase)}

\* \d
Digit == {"0", "1", "2", "3", "4", "5", "6", "7", "8", "9"}

\* \s
Space == {" ", "\n", "\t", "\r", "\f"}

\* [\s#:]
SpaceHashColon == Space \cup {"#", ":"}

\* [\s:]
SpaceColon == Space \cup {":"}

\* [\s-]
SpaceDash == Space \cup {"-"}

\* [xX*]
Mask == {"x", "X", "*"}

\* [/-]
DateSep == {"/", "-"}

\* [0-9,]
DigitComma == Digit \cup {","}

\* \.
Dot == {"."}

\* [A-Za-z\s\*&\-\.]
DescriptionChar == Letters \cup Space \cup {"*", "&", "-", "."}

\* the lower-case letter of each upper-case letter
LowerOf ==
    [c \in {Char(UpperCase, i) : i \in 1..Len(UpperCase)} |->
        Char(LowerCase, CHOOSE i \in 1..Len(UpperCase) : Char(UpperCase, i) = c)]

\* str.lower() on one character
LowerChar(c) == IF c \in DOMAIN LowerOf THEN LowerOf[c] ELSE c

RECURSIVE Lower(_)
\* str.lower(), character by character (computed by halves)
Lower(s) ==
    IF Len(s) = 0 THEN ""
    ELSE IF Len(s) = 1 THEN LowerChar(s)
    ELSE Lower(SubSeq(s, 1, Len(s) \div 2)) \o Lower(SubSeq(s, Len(s) \div 2 + 1, Len(s)))

\* kw in s
Contains(s, kw) ==
    \E i \in 1..(Len(s) - Len(kw) + 1) : SubSeq(s, i, i + Len(kw) - 1) = kw

RECURSIVE ReplaceFirst(_, _, _)
\* str.replace(old, new, 1): only the first occurrence is replaced
ReplaceFirst(s, old, new) ==
    IF s = "" THEN ""
    ELSE IF Head(s) = old THEN new \o Tail(s)
    ELSE Head(s) \o ReplaceFirst(Tail(s), old, new)

RECURSIVE Replace(_, _, _)
\* str.replace(old, new) for a one-character old: every occurrence is replaced
Replace(s, old, new) ==
    IF s = "" THEN ""
    ELSE (IF Head(s) = old THEN new ELSE Head(s)) \o Replace(Tail(s), old, new)

RECURSIVE LStrip(_)
LStrip(s) == IF s # "" /\ Head(s) \in Space THEN LStrip(Tail(s)) ELSE s

RECURSIVE RStrip(_)
RStrip(s) ==
    IF s # "" /\ Char(s, Len(s)) \in Space THEN RStrip(SubSeq(s, 1, Len(s) - 1)) ELSE s

\* str.strip()
Strip(s) == RStrip(LStrip(s))

----------------------------------------------------------------------------
(* Regular expressions.  A pattern is a sequence of items:                 *)
(*   Alt(<<l1, ..., ln>>)  ordered alternatives of literal strings, as in  *)
(*                         (?:l1|...|ln); an empty last alternative is an  *)
(*                         optional group (?:...)?                         *)
(*   Rep(cls, min, max)    greedy repetition cls{min,max}                  *)
(*   Plus(cls), Star(cls)  greedy cls+ and cls*                            *)
(*   LazyPlus(cls)         cls+?                                           *)
(*   Open(g), Close(g)     the parentheses of capture group g              *)

Alt(alts) == [kind |-> "alt", alts |-> alts]

Word(w) == Alt(<<w>>)

Rep(cls, min, max) ==
    [kind |-> "rep", cls |-> cls, min |-> min, max |-> max, bounded |-> TRUE, lazy |-> FALSE]

Plus(cls) ==
    [kind |-> "rep", cls |-> cls, min |-> 1, max |-> 0, bounded |-> FALSE, lazy |-> FALSE]

Star(cls) ==
    [kind |-> "rep", cls |-> cls, min |-> 0, max |-> 0, bounded |-> FALSE, lazy |-> FALSE]

LazyPlus(cls) ==
    [kind |-> "rep", cls |-> cls, min |-> 1, max |-> 0, bounded |-> FALSE, lazy |-> TRUE]

Open(g) == [kind |-> "open", g |-> g]

Close(g) == [kind |-> "close", g |-> g]

NoGroups == [g \in 1..3 |-> [start |-> 0, end |-> 0]]

NoMatch == [ok |-> FALSE, start |-> 0, end |-> 0, groups |-> NoGroups]

RECURSIVE Run(_, _, _, _)
\* how many characters of cls follow position pos, counting at most limit
Run(text, pos, cls, limit) ==
    IF limit = 0 \/ pos > Len(text) \/ Char(text, pos) \notin cls THEN 0
    ELSE 1 + Run(text, pos + 1, cls, limit - 1)

\* a literal at position pos
LiteralAt(text, pos, lit) ==
    /\ pos + Len(lit) - 1 <= Len(text)
    /\ SubSeq(text, pos, pos + Len(lit) - 1) = lit

RECURSIVE MatchItems(_, _, _, _, _)
RECURSIVE TryAlternatives(_, _, _, _, _, _)
RECURSIVE TryGreedy(_, _, _, _, _, _)
RECURSIVE TryLazy(_, _, _, _, _, _)

\* the items from index i on, matched at position pos: the first success in
\* the backtracking order of the re module
MatchItems(items, i, text, pos, groups) ==
    IF i > Len(items)
    THEN [ok |-> TRUE, start |-> 0, end |-> pos, groups |-> groups]
    ELSE LET it == items[i]
         IN  CASE it.kind = "open" ->
                    MatchItems(items, i + 1, text, pos,
                        [groups EXCEPT ![it.g] = [start |-> pos, end |-> pos]])
               [] it.kind = "close" ->
                    MatchItems(items, i + 1, text, pos,
                        [groups EXCEPT ![it.g] = [start |-> @.start, end |-> pos]])
               [] it.kind = "alt" ->
                    TryAlternatives(items, i, text, pos, groups, 1)
               [] it.kind = "rep" ->
                    LET n == Run(text, pos, it.cls,
                                 IF it.bounded THEN it.max ELSE Len(text))
                    IN  IF n < it.min THEN NoMatch
                        ELSE IF it.lazy
                             THEN TryLazy(items, i, text, pos, groups, it.min)
                             ELSE TryGreedy(items, i, text, pos, groups, n)

TryAlternatives(items, i, text, pos, groups, j) ==
    IF j > Len(items[i].alts) THEN NoMatch
    ELSE LET lit == items[i].alts[j]
             r == IF LiteralAt(text, pos, lit)
                  THEN MatchItems(items, i + 1, text, pos + Len(lit), groups)
                  ELSE NoMatch
         IN  IF r.ok THEN r
             ELSE TryAlternatives(items, i, text, pos, groups, j + 1)

\* greedy: the longest repetition first
TryGreedy(items, i, text, pos, groups, k) ==
    IF k < items[i].min THEN NoMatch
    ELSE LET r == MatchItems(items, i + 1, text, pos + k, groups)
         IN  IF r.ok THEN r
             ELSE TryGreedy(items, i, text, pos, groups, k - 1)

\* lazy: the shortest repetition first; the k characters from pos are in the class
TryLazy(items, i, text, pos, groups, k) ==
    LET r == MatchItems(items, i + 1, text, pos + k, groups)
    IN  IF r.ok THEN r
        ELSE IF pos + k <= Len(text) /\ Char(text, pos + k) \in items[i].cls
             THEN TryLazy(items, i, text, pos, groups, k + 1)
             ELSE NoMatch

RECURSIVE SearchIn(_, _, _, _)
\* the match at the least start position in lo..hi (searched by halves, left first)
SearchIn(items, text, lo, hi) ==
    IF lo > hi THEN NoMatch
    ELSE IF lo = hi
    THEN LET r == MatchItems(items, 1, text, lo, NoGroups)
         IN  IF r.ok THEN [r EXCEPT !.start = lo] ELSE NoMatch
    ELSE LET mid == (lo + hi) \div 2
             left == SearchIn(items, text, lo, mid)
         IN  IF left.ok THEN left ELSE SearchIn(items, text, mid + 1, hi)

\* the leftmost match that starts at position from or later
SearchFrom(items, text, from) == SearchIn(items, text, from, Len(text) + 1)

\* re.IGNORECASE on a pattern: its literals case-folded (no class of these
\* patterns has a letter other than x and X, which the class lists both)
IgnoreCase(items) ==
    [i \in 1..Len(items) |->
        IF items[i].kind = "alt"
        THEN Alt([j \in 1..Len(items[i].alts) |-> Lower(items[i].alts[j])])
        ELSE items[i]]

\* re.search(pattern, text, re.IGNORECASE), given the case-folded text: the
\* positions of the match are positions of text
Search(items, folded) == SearchFrom(IgnoreCase(items), folded, 1)

\* match.group(g)
Group(text, m, g) == SubSeq(text, m.groups[g].start, m.groups[g].end - 1)

----------------------------------------------------------------------------
(* The patterns of the field extractors (parser.py).                       *)

\* (\d{1,2}[/-]\d{1,2}[/-]\d{2,4}) as capture group g
Date(g) ==
    <<Open(g), Rep(Digit, 1, 2), Rep(DateSep, 1, 1), Rep(Digit, 1, 2),
      Rep(DateSep, 1, 1), Rep(Digit, 2, 4), Close(g)>>

\* (?:Rs\.?|INR|USD|\$)?
Currency == Alt(<<"Rs.", "Rs", "INR", "USD", "$", "">>)

\* [\s]*(?:to|-|through)[\s]*
DateRange == <<Star(Space), Alt(<<"to", "-", "through">>), Star(Space)>>

\* [\s:]*(?:Rs\.?|INR|USD|\$)?[\s]*([0-9,]+\.?\d*)
AmountDue ==
    <<Star(SpaceColon), Currency, Star(Space),
      Open(1), Plus(DigitComma), Rep(Dot, 0, 1), Star(Digit), Close(1)>>

CardPatterns ==
    << <<Alt(<<"card", "account">>), Star(SpaceHashColon), Alt(<<"ending", "number", "">>),
         Star(SpaceHashColon), Rep(Mask, 4, 12), Open(1), Rep(Digit, 4, 4), Close(1)>>,
       <<Rep(Mask, 4, 12), Rep(SpaceDash, 0, 1), Open(1), Rep(Digit, 4, 4), Close(1)>>,
       <<Open(1), Rep(Digit, 4, 4), Close(1), Star(Space), Alt(<<"card", "account">>)>>,
       <<Word("account"), Plus(Space), Word("number"), Star(SpaceColon), Plus(Mask),
         Open(1), Rep(Digit, 4, 4), Close(1)>> >>

\* the billing patterns cut after the start date: the end date is not required
BillingCyclePatternsStartOnly ==
    << <<Alt(<<"billing", "statement">>), Plus(Space), Alt(<<"period", "cycle", "date">>),
         Star(SpaceColon)>> \o Date(1),
       <<Word("statement"), Plus(Space), Word("from"), Star(SpaceColon)>> \o Date(1),
       Date(1) \o DateRange \o Date(2) >>

BillingCyclePatterns ==
    << <<Alt(<<"billing", "statement">>), Plus(Space), Alt(<<"period", "cycle", "date">>),
         Star(SpaceColon)>> \o Date(1) \o DateRange \o Date(2),
       <<Word("statement"), Plus(Space), Word("from"), Star(SpaceColon)>>
         \o Date(1) \o DateRange \o Date(2),
       Date(1) \o DateRange \o Date(2) >>

DueDatePatterns ==
    << <<Alt(<<"payment", "pay">>), Plus(Space), Word("due"), Plus(Space),
         Alt(<<"date", "by">>), Star(SpaceColon)>> \o Date(1),
       <<Word("due"), Plus(Space), Word("date"), Star(SpaceColon)>> \o Date(1),
       <<Word("please"), Plus(Space), Word("pay"), Plus(Space), Word("by"),
         Star(SpaceColon)>> \o Date(1) >>

TotalDuePatterns ==
    << <<Alt(<<"total", "new", "amount">>), Plus(Space),
         Alt(<<"balance", "due", "amount due">>)>> \o AmountDue,
       <<Alt(<<"amount", "payment">>), Plus(Space), Word("due")>> \o AmountDue,
       <<Alt(<<"minimum", "total">>), Plus(Space), Alt(<<"payment", "amount">>),
         Plus(Space), Word("due")>> \o AmountDue,
       <<Word("new"), Plus(Space), Word("balance")>> \o AmountDue >>

\* the transaction pattern with the amount of the total-due patterns,
\* ([0-9,]+\.?\d*): any number of digits after the optional decimal point
TransactionPatternAnyDigits ==
    Date(1) \o <<Plus(Space), Open(2), LazyPlus(DescriptionChar), Close(2), Plus(Space),
                 Currency, Star(Space),
                 Open(3), Plus(DigitComma), Rep(Dot, 0, 1), Star(Digit), Close(3)>>

\* date, description (lazy), optional currency, amount with two digits at the end
TransactionPattern ==
    Date(1) \o <<Plus(Space), Open(2), LazyPlus(DescriptionChar), Close(2), Plus(Space),
                 Currency, Star(Space),
                 Open(3), Plus(DigitComma), Rep(Dot, 0, 1), Rep(Digit, 2, 2), Close(3)>>

\* "Limit to first 10 transactions for display"
MaxTransactions == 10

----------------------------------------------------------------------------
(* The methods of CreditCardParser as functions of self.text_content.      *)

\* identify_issuer with Chase decided by the keyword "chase" alone
identify_issuer_bare_chase(text) ==
    LET text_lower == Lower(text)
    IN  IF Contains(text_lower, "american express") \/ Contains(text_lower, "amex")
        THEN "American Express"
        ELSE IF Contains(text_lower, "chase")
        THEN "Chase"
        ELSE IF Contains(text_lower, "citibank") \/ Contains(text_lower, "citi")
        THEN "Citibank"
        ELSE IF Contains(text_lower, "hdfc")
        THEN "HDFC Bank"
        ELSE IF Contains(text_lower, "icici")
        THEN "ICICI Bank"
        ELSE "Unknown"

\* identify_issuer with the HDFC branch placed before the Citibank branch
identify_issuer_hdfc_first(text) ==
    LET text_lower == Lower(text)
    IN  IF Contains(text_lower, "american express") \/ Contains(text_lower, "amex")
        THEN "American Express"
        ELSE IF Contains(text_lower, "chase") /\
                (\/ Contains(text_lower, "credit card")
                 \/ Contains(text_lower, "visa")
                 \/ Contains(text_lower, "mastercard"))
        THEN "Chase"
        ELSE IF Contains(text_lower, "hdfc")
        THEN "HDFC Bank"
        ELSE IF Contains(text_lower, "citibank") \/ Contains(text_lower, "citi")
        THEN "Citibank"
        ELSE IF Contains(text_lower, "icici")
        THEN "ICICI Bank"
        ELSE "Unknown"

\* the if/elif cascade of identify_issuer
identify_issuer(text) ==
    LET text_lower == Lower(text)
    IN  IF Contains(text_lower, "american express") \/ Contains(text_lower, "amex")
        THEN "American Express"
        ELSE IF Contains(text_lower, "chase") /\
                (\/ Contains(text_lower, "credit card")
                 \/ Contains(text_lower, "visa")
                 \/ Contains(text_lower, "mastercard"))
        THEN "Chase"
        ELSE IF Contains(text_lower, "citibank") \/ Contains(text_lower, "citi")
        THEN "Citibank"
        ELSE IF Contains(text_lower, "hdfc")
        THEN "HDFC Bank"
        ELSE IF Contains(text_lower, "icici")
        THEN "ICICI Bank"
        ELSE "Unknown"

RECURSIVE LastMatch(_, _, _)
\* the loop without its early return: a later pattern that matches overrides
LastMatch(patterns, folded, i) ==
    IF i > Len(patterns) THEN NoMatch
    ELSE LET match == Search(patterns[i], folded)
             later == LastMatch(patterns, folded, i + 1)
         IN  IF later.ok THEN later ELSE match

RECURSIVE FirstMatch(_, _, _)
\* for pattern in patterns: match = re.search(pattern, text, re.IGNORECASE);
\* if match: return ...   (the match of the first pattern, from index i on,
\* that matches; folded is the case-folded text)
FirstMatch(patterns, folded, i) ==
    IF i > Len(patterns) THEN NoMatch
    ELSE LET match == Search(patterns[i], folded)
         IN  IF match.ok THEN match ELSE FirstMatch(patterns, folded, i + 1)

extract_card_last_four(text) ==
    LET match == FirstMatch(CardPatterns, Lower(text), 1)
    IN  IF match.ok THEN Some(Group(text, match, 1)) ELSE None

extract_billing_cycle(text) ==
    LET match == FirstMatch(BillingCyclePatterns, Lower(text), 1)
    IN  IF match.ok
        THEN Some([start_date |-> Group(text, match, 1), end_date |-> Group(text, match, 2)])
        ELSE None

extract_payment_due_date(text) ==
    LET match == FirstMatch(DueDatePatterns, Lower(text), 1)
    IN  IF match.ok THEN Some(Group(text, match, 1)) ELSE None

\* extract_total_amount_due returning a blank string when no pattern matches
extract_total_amount_due_blank(text) ==
    LET match == FirstMatch(TotalDuePatterns, Lower(text), 1)
    IN  IF match.ok THEN Some(Replace(Group(text, match, 1), ",", "")) ELSE Some("")

extract_total_amount_due(text) ==
    LET match == FirstMatch(TotalDuePatterns, Lower(text), 1)
    IN  IF match.ok THEN Some(Replace(Group(text, match, 1), ",", "")) ELSE None

\* the dict built from one match of the transaction pattern
Transaction(text, match) ==
    [date |-> Group(text, match, 1),
     description |-> Strip(Group(text, match, 2)),
     amount |-> Replace(Group(text, match, 3), ",", "")]

RECURSIVE FindIter(_, _, _)
\* re.finditer(pattern, text): the non-overlapping matches from position from
\* on, left to right, each search resuming where the previous match ended
FindIter(items, text, from) ==
    LET match == SearchFrom(items, text, from)
    IN  IF ~match.ok THEN <<>>
        ELSE <<match>> \o
             FindIter(items, text, IF match.end > match.start THEN match.end ELSE match.end + 1)

RECURSIVE TransactionLoopOffByOne(_, _, _, _)
\* the loop breaking at len(transactions) > 10
TransactionLoopOffByOne(text, matches, i, transactions) ==
    IF i > Len(matches) THEN transactions
    ELSE LET appended == Append(transactions, Transaction(text, matches[i]))
         IN  IF Len(appended) > MaxTransactions THEN appended
             ELSE TransactionLoopOffByOne(text, matches, i + 1, appended)

RECURSIVE TransactionLoop(_, _, _, _)
\* for match in matches: transactions.append(...); if len(transactions) >= 10: break
TransactionLoop(text, matches, i, transactions) ==
    IF i > Len(matches) THEN transactions
    ELSE LET appended == Append(transactions, Transaction(text, matches[i]))
         IN  IF Len(appended) >= MaxTransactions THEN appended
             ELSE TransactionLoop(text, matches, i + 1, appended)

extract_transactions(text) ==
    TransactionLoop(text, FindIter(TransactionPattern, text, 1), 1, <<>>)

----------------------------------------------------------------------------
(* The PDF documents: the text of each page, as page.extract_text()        *)
(* returns it.                                                             *)

MaxPages == 2

\* the scenario statement of the specification's section 8
ScenarioText ==
    "American Express ... Card ending XXXXXXXXXX1234 ... "
      \o "Statement period 01/01/2024 to 31/01/2024 ... Payment due date 15/02/2024 ... "
      \o "Total amount due Rs. 12,345.67 ... 05/01/2024 COFFEE SHOP 450.00"

\* a page of transaction lines
TransactionPage ==
    "01/02/24 GROCERY 1,200.50\n02/02/24 FUEL Rs. 900.00\n03/02/24 A&B CAFE $ 12.99\n"
      \o "04/02/24 BOOKS 350\n05/02/24 TAXI 7.25\n06/02/24 GYM 40.00"

PageTexts ==
    { "American Express statement from 1-2-24",
      "Chase Card ending XXXX1234",
      "VISA 5678 card",
      "Citibank Minimum payment due 250.00",
      "HDFC Bank Account number: **4321",
      "ICICI Bank Please pay by 20/02/24",
      "Statement period 01/01/2024 to 31/01/2024",
      "New Balance: $1,234,567.89 02/02/24 - 01/03/24",
      "Payment due date: 15/02/2024",
      "Total amount due Rs. 1,234.56",
      "Amount due, if any",
      TransactionPage }

\* the page sequences of at most MaxPages pages
PageSeqs == UNION {[1..n -> PageTexts] : n \in 0..MaxPages}

\* the documents: an unreadable file, the documents of at most MaxPages pages
\* and the one-page scenario statement
PDFs == {[readable |-> FALSE, pages |-> <<>>]} \cup
        {[readable |-> TRUE, pages |-> pages] : pages \in PageSeqs \cup {<<ScenarioText>>}}

RECURSIVE PdfText(_)
\* for page in pdf.pages: text += page.extract_text() + "\n"
PdfText(pages) ==
    IF pages = <<>> THEN ""
    ELSE PdfText(SubSeq(pages, 1, Len(pages) - 1)) \o pages[Len(pages)] \o "\n"

----------------------------------------------------------------------------
(* parse(): one action per statement.                                      *)

Init ==
    /\ pdf \in PDFs
    /\ text_content = ""
    /\ issuer = None
    /\ pc = "idle"
    /\ fields = <<>>
    /\ called = <<>>
    /\ result = None
    /\ raised = FALSE
    /\ first = None

\* parse_statement(pdf_path) on the same document again: the caller keeps the
\* result it has and constructs a new parser object
NewParser ==
    /\ pc = "done"
    /\ first' = IF first = None THEN result ELSE first
    /\ text_content' = ""
    /\ issuer' = None
    /\ pc' = "idle"
    /\ fields' = <<>>
    /\ called' = <<>>
    /\ result' = None
    /\ raised' = FALSE
    /\ UNCHANGED pdf

\* parser.parse() is called again on the same parser: the caller keeps the
\* result it has, and text_content and issuer are as the earlier call left them
ParseAgain ==
    /\ pc = "done"
    /\ first' = IF first = None THEN result ELSE first
    /\ pc' = "extract_text"
    /\ fields' = <<>>
    /\ called' = <<>>
    /\ result' = None
    /\ raised' = FALSE
    /\ UNCHANGED <<pdf, text_content, issuer>>

\* parser.parse() is called, on a new parser or again on the same one
Parse ==
    /\ pc \in {"idle", "done"}
    /\ pc' = "extract_text"
    /\ fields' = <<>>
    /\ called' = <<>>
    /\ result' = None
    /\ raised' = FALSE
    /\ UNCHANGED <<pdf, text_content, issuer, first>>

\* extract_text appending to self.text_content instead of assigning it
ExtractTextAccumulates ==
    /\ pc = "extract_text"
    /\ pdf.readable
    /\ text_content' = text_content \o PdfText(pdf.pages)
    /\ called' = Append(called, "extract_text")
    /\ pc' = "identify_issuer"
    /\ UNCHANGED <<pdf, issuer, fields, result, raised, first>>

\* self.extract_text() returns: text_content is set
ExtractText ==
    /\ pc = "extract_text"
    /\ pdf.readable
    /\ text_content' = PdfText(pdf.pages)
    /\ called' = Append(called, "extract_text")
    /\ pc' = "identify_issuer"
    /\ UNCHANGED <<pdf, issuer, fields, result, raised, first>>

\* extract_text swallowing the exception and going on with an empty text
ExtractTextSwallows ==
    /\ pc = "extract_text"
    /\ ~pdf.readable
    /\ text_content' = ""
    /\ called' = Append(called, "extract_text")
    /\ pc' = "identify_issuer"
    /\ UNCHANGED <<pdf, issuer, fields, result, raised, first>>

\* pdfplumber raises inside the try block: extract_text re-raises and parse() ends
ExtractTextRaises ==
    /\ pc = "extract_text"
    /\ ~pdf.readable
    /\ called' = Append(called, "extract_text")
    /\ raised' = TRUE
    /\ pc' = "done"
    /\ UNCHANGED <<pdf, text_content, issuer, fields, result, first>>

\* one extractor call of parse(): its value is kept under key, next is the new position
Step(at, method, key, value, next) ==
    /\ pc = at
    /\ fields' = (key :> value) @@ fields
    /\ called' = Append(called, method)
    /\ pc' = next
    /\ UNCHANGED <<pdf, text_content, result, raised, first>>

IdentifyIssuer ==
    /\ Step("identify_issuer", "identify_issuer", "issuer",
            identify_issuer(text_content), "card_last_four")
    /\ issuer' = Some(identify_issuer(text_content))

ExtractCardLastFour ==
    /\ Step("card_last_four", "extract_card_last_four", "card_last_four",
            extract_card_last_four(text_content), "billing_cycle")
    /\ UNCHANGED issuer

ExtractBillingCycle ==
    /\ Step("billing_cycle", "extract_billing_cycle", "billing_cycle",
            extract_billing_cycle(text_content), "payment_due_date")
    /\ UNCHANGED issuer

ExtractPaymentDueDate ==
    /\ Step("payment_due_date", "extract_payment_due_date", "payment_due_date",
            extract_payment_due_date(text_content), "total_amount_due")
    /\ UNCHANGED issuer

ExtractTotalAmountDue ==
    /\ Step("total_amount_due", "extract_total_amount_due", "total_amount_due",
            extract_total_amount_due(text_content), "transactions")
    /\ UNCHANGED issuer

ExtractTransactions ==
    /\ Step("transactions", "extract_transactions", "transactions",
            extract_transactions(text_content), "return")
    /\ UNCHANGED issuer

\* return result
Return ==
    /\ pc = "return"
    /\ result' = Some(fields)
    /\ pc' = "done"
    /\ UNCHANGED <<pdf, text_content, issuer, fields, called, raised, first>>

Next ==
    \/ Parse
    \/ ExtractText
    \/ ExtractTextRaises
    \/ IdentifyIssuer
    \/ ExtractCardLastFour
    \/ ExtractBillingCycle
    \/ ExtractPaymentDueDate
    \/ ExtractTotalAmountDue
    \/ ExtractTransactions
    \/ Return

Spec == Init /\ [][Next]_vars

\* the caller parses a document, keeps the result and parses the document again
NextAgain ==
    \/ Next
    \/ ParseAgain
    \/ NewParser

SpecAgain == Init /\ [][NextAgain]_vars

----------------------------------------------------------------------------
(* The issuer table of config.py and the conditions the claims speak of.   *)

\* CreditCardParser.SUPPORTED_ISSUERS: the issuers in their fixed order
SUPPORTED_ISSUERS ==
    <<"American Express", "Chase", "Citibank", "HDFC Bank", "ICICI Bank">>

\* config.SUPPORTED_ISSUERS[name]["keywords"]
Keywords(name) ==
    CASE name = "American Express" -> {"american express", "amex"}
      [] name = "Chase" -> {"chase", "chase bank"}
      [] name = "Citibank" -> {"citibank", "citi"}
      [] name = "HDFC Bank" -> {"hdfc", "hdfc bank"}
      [] name = "ICICI Bank" -> {"icici", "icici bank"}

\* the keywords one of which Chase needs besides its own
ChaseCompoundKeywords == {"credit card", "visa", "mastercard"}

HasKeyword(name, lowered) == \E kw \in Keywords(name) : Contains(lowered, kw)

HasCompoundKeyword(lowered) == \E kw \in ChaseCompoundKeywords : Contains(lowered, kw)

\* the condition of an issuer on the lowercased text
Condition(name, lowered) ==
    /\ HasKeyword(name, lowered)
    /\ name = "Chase" => HasCompoundKeyword(lowered)

\* identify_issuer has just returned: its value is fields.issuer
Identified == pc = "card_last_four"

\* parse() has returned a result
Returned == pc = "done" /\ ~raised

----------------------------------------------------------------------------
(* C1..C10                                                                 *)

\* C1: identify_issuer returns one of the five issuers or "Unknown": the first
\* issuer of the fixed order whose condition holds on the lowercased text
\* (Chase: "chase" and one of "credit card", "visa", "mastercard"; the others:
\* a keyword), "Unknown" exactly when no condition holds; a text with "chase"
\* and none of the three compound keywords is never identified as Chase.
C1_FirstIssuerWhoseConditionHolds ==
    Identified =>
        LET lowered == Lower(text_content)
            holds == {i \in 1..Len(SUPPORTED_ISSUERS) : Condition(SUPPORTED_ISSUERS[i], lowered)}
        IN  /\ issuer = Some(fields.issuer)
            /\ fields.issuer \in {SUPPORTED_ISSUERS[i] : i \in 1..Len(SUPPORTED_ISSUERS)}
                                   \cup {"Unknown"}
            /\ (fields.issuer = "Unknown") <=> (holds = {})
            /\ \A i \in holds :
                  (\A j \in holds : i <= j) => fields.issuer = SUPPORTED_ISSUERS[i]
            /\ (Contains(lowered, "chase") /\ ~HasCompoundKeyword(lowered))
                  => fields.issuer # "Chase"

\* a text with "chase" and no compound keyword has been classified
C1_Witness ==
    /\ Identified
    /\ Contains(Lower(text_content), "chase")
    /\ ~HasCompoundKeyword(Lower(text_content))
    /\ fields.issuer = "Unknown"

\* C2 as stated: a text with a keyword of an issuer (for Chase also a compound
\* keyword) yields exactly that issuer, and a text with no keyword of any
\* issuer yields "Unknown".
C2_KeywordYieldsItsIssuer ==
    Identified =>
        LET lowered == Lower(text_content)
        IN  /\ \A i \in 1..Len(SUPPORTED_ISSUERS) :
                  Condition(SUPPORTED_ISSUERS[i], lowered)
                      => fields.issuer = SUPPORTED_ISSUERS[i]
            /\ (\A i \in 1..Len(SUPPORTED_ISSUERS) : ~HasKeyword(SUPPORTED_ISSUERS[i], lowered))
                  => fields.issuer = "Unknown"

\* C2 amended: a text with a keyword of an issuer (for Chase also a compound
\* keyword) yields that issuer provided no issuer earlier in the fixed order
\* has its condition satisfied by the text; a text with no keyword of any
\* issuer yields "Unknown".
C2_KeywordYieldsItsIssuerUnlessEarlier ==
    Identified =>
        LET lowered == Lower(text_content)
        IN  /\ \A i \in 1..Len(SUPPORTED_ISSUERS) :
                  (/\ Condition(SUPPORTED_ISSUERS[i], lowered)
                   /\ \A j \in 1..(i - 1) : ~Condition(SUPPORTED_ISSUERS[j], lowered))
                      => fields.issuer = SUPPORTED_ISSUERS[i]
            /\ (\A i \in 1..Len(SUPPORTED_ISSUERS) : ~HasKeyword(SUPPORTED_ISSUERS[i], lowered))
                  => fields.issuer = "Unknown"

\* a text with the keywords of two issuers has been classified as the earlier
C2_Witness ==
    /\ Identified
    /\ Condition("Citibank", Lower(text_content))
    /\ Condition("HDFC Bank", Lower(text_content))
    /\ fields.issuer = "Citibank"

\* the match of each pattern of a list, searched on its own in the text
MatchesOf(patterns, text) ==
    [i \in 1..Len(patterns) |-> Search(patterns[i], Lower(text))]

\* the lowest index of a pattern that matches, 0 when none does
LowestIndex(matches) ==
    IF \E i \in DOMAIN matches : matches[i].ok
    THEN CHOOSE i \in DOMAIN matches :
            matches[i].ok /\ \A j \in 1..(i - 1) : ~matches[j].ok
    ELSE 0

\* C3: each of card_last_four, billing_cycle, payment_due_date and
\* total_amount_due is the capture of the lowest-index pattern of its list that
\* matches anywhere in the text, whatever the later patterns match, and is
\* absent when no pattern of the list matches.
C3_LowestIndexPatternWins ==
    Returned =>
        LET text == text_content
            card == MatchesOf(CardPatterns, text)
            cycle == MatchesOf(BillingCyclePatterns, text)
            due == MatchesOf(DueDatePatterns, text)
            total == MatchesOf(TotalDuePatterns, text)
        IN  /\ result[1].card_last_four =
                  IF LowestIndex(card) = 0 THEN None
                  ELSE Some(Group(text, card[LowestIndex(card)], 1))
            /\ result[1].billing_cycle =
                  IF LowestIndex(cycle) = 0 THEN None
                  ELSE Some([start_date |-> Group(text, cycle[LowestIndex(cycle)], 1),
                             end_date |-> Group(text, cycle[LowestIndex(cycle)], 2)])
            /\ result[1].payment_due_date =
                  IF LowestIndex(due) = 0 THEN None
                  ELSE Some(Group(text, due[LowestIndex(due)], 1))
            /\ result[1].total_amount_due =
                  IF LowestIndex(total) = 0 THEN None
                  ELSE Some(Replace(Group(text, total[LowestIndex(total)], 1), ",", ""))

\* the first and the third card pattern both match, the third earlier in the
\* text and with another capture, and the first pattern's capture is returned
C3_Witness ==
    /\ Returned
    /\ LET card == MatchesOf(CardPatterns, text_content)
       IN  /\ card[1].ok /\ card[3].ok
           /\ card[3].start < card[1].start
           /\ Group(text_content, card[3], 1) # Group(text_content, card[1], 1)
           /\ result[1].card_last_four = Some(Group(text_content, card[1], 1))

\* C4: extract_transactions returns at most 10 records, record i built from
\* the i-th non-overlapping match of the transaction pattern in left-to-right
\* order; with more than 10 matches exactly the first 10 are returned.
C4_FirstTenMatchesInOrder ==
    Returned =>
        LET all == FindIter(TransactionPattern, text_content, 1)
            transactions == result[1].transactions
        IN  /\ Len(transactions) <= 10
            /\ Len(transactions) = IF Len(all) > 10 THEN 10 ELSE Len(all)
            /\ \A i \in 1..Len(transactions) :
                  transactions[i] = Transaction(text_content, all[i])
            /\ \A i \in 1..(Len(all) - 1) :
                  all[i].start < all[i].end /\ all[i].end <= all[i + 1].start

\* a text with more than 10 matches has been parsed
C4_Witness ==
    /\ Returned
    /\ Len(FindIter(TransactionPattern, text_content, 1)) > 10
    /\ Len(result[1].transactions) = 10

\* a captured date: digits in three groups separated by / or -
IsDate(s) ==
    /\ Len(s) >= 6
    /\ \A i \in 1..Len(s) : Char(s, i) \in Digit \cup DateSep
    /\ Char(s, 1) \in Digit /\ Char(s, Len(s)) \in Digit
    /\ Cardinality({i \in 1..Len(s) : Char(s, i) \in DateSep}) = 2

\* a billing pattern up to the end of its start date
StartOf(items) == SubSeq(items, 1, CHOOSE k \in 1..Len(items) : items[k] = Close(1))

\* some billing pattern matches up to its start date and none matches wholly
StartDateOnly(text) ==
    /\ \E i \in 1..Len(BillingCyclePatterns) :
          Search(StartOf(BillingCyclePatterns[i]), Lower(text)).ok
    /\ \A i \in 1..Len(BillingCyclePatterns) :
          ~Search(BillingCyclePatterns[i], Lower(text)).ok

\* C5: the billing cycle is absent or has both a start and an end date, each a
\* non-empty captured date; a text with a start date that matches a pattern
\* and no matching end date yields an absent billing cycle.
C5_BillingCycleAllOrNothing ==
    Returned =>
        /\ \/ result[1].billing_cycle = None
           \/ /\ result[1].billing_cycle # None
              /\ DOMAIN result[1].billing_cycle[1] = {"start_date", "end_date"}
              /\ IsDate(result[1].billing_cycle[1].start_date)
              /\ IsDate(result[1].billing_cycle[1].end_date)
        /\ StartDateOnly(text_content) => result[1].billing_cycle = None

\* a text with a start date only has been parsed
C5_Witness ==
    /\ Returned
    /\ StartDateOnly(text_content)
    /\ Search(StartOf(BillingCyclePatterns[2]), Lower(text_content)).ok
    /\ result[1].billing_cycle = None

\* a captured amount: digits and decimal points, at least one character
IsAmount(s) ==
    /\ s # ""
    /\ \A i \in 1..Len(s) : Char(s, i) \in Digit \cup Dot

\* C6: every optional field of the result is the not-found sentinel or a
\* well-formed, non-empty captured value; total_amount_due is never the empty
\* string.
C6_OptionalFieldsWellFormed ==
    Returned =>
        /\ \/ result[1].card_last_four = None
           \/ /\ Len(result[1].card_last_four[1]) = 4
              /\ \A i \in 1..4 : Char(result[1].card_last_four[1], i) \in Digit
        /\ \/ result[1].billing_cycle = None
           \/ /\ IsDate(result[1].billing_cycle[1].start_date)
              /\ IsDate(result[1].billing_cycle[1].end_date)
        /\ \/ result[1].payment_due_date = None
           \/ IsDate(result[1].payment_due_date[1])
        /\ \/ result[1].total_amount_due = None
           \/ IsAmount(result[1].total_amount_due[1])

\* out is raw with its commas deleted and nothing else changed
CommasRemoved(raw, out) ==
    LET commasUpTo(i) == Cardinality({j \in 1..i : Char(raw, j) = ","})
    IN  /\ \A i \in 1..Len(out) : Char(out, i) # ","
        /\ Len(out) = Len(raw) - commasUpTo(Len(raw))
        /\ \A i \in 1..Len(raw) :
              Char(raw, i) # "," => Char(out, i - commasUpTo(i)) = Char(raw, i)

\* C7: a returned total_amount_due and the amount of every returned
\* transaction hold no comma: each is the captured amount text with all its
\* commas removed and nothing else changed.
C7_AmountsHaveCommasRemoved ==
    Returned =>
        LET text == text_content
            total == FirstMatch(TotalDuePatterns, Lower(text), 1)
            all == FindIter(TransactionPattern, text, 1)
            transactions == result[1].transactions
        IN  /\ total.ok =>
                  /\ result[1].total_amount_due # None
                  /\ CommasRemoved(Group(text, total, 1), result[1].total_amount_due[1])
            /\ \A i \in 1..Len(transactions) :
                  CommasRemoved(Group(text, all[i], 3), transactions[i].amount)

\* the captured total "1,234.56" is returned as "1234.56", and a transaction
\* amount captured with a comma is returned
C7_Witness ==
    /\ Returned
    /\ Group(text_content, FirstMatch(TotalDuePatterns, Lower(text_content), 1), 1) = "1,234.56"
    /\ result[1].total_amount_due = Some("1234.56")
    /\ \E i \in 1..Len(result[1].transactions) :
          /\ Contains(Group(text_content, FindIter(TransactionPattern, text_content, 1)[i], 3), ",")
          /\ result[1].transactions[i].amount = "1200.50"

\* the methods parse() calls, in the order of the calls
ParseCalls ==
    <<"extract_text", "identify_issuer", "extract_card_last_four", "extract_billing_cycle",
      "extract_payment_due_date", "extract_total_amount_due", "extract_transactions">>

\* the keys of the result dict
ResultKeys ==
    {"issuer", "card_last_four", "billing_cycle", "payment_due_date", "total_amount_due",
     "transactions"}

\* C8: parse() ends with an error exactly when extract_text fails; then no
\* result is returned and neither identify_issuer nor an extractor has run;
\* when extract_text succeeds parse() returns a result with all six keys.
C8_AbortsIffExtractTextFails ==
    /\ pc = "done" => (raised <=> ~pdf.readable)
    /\ raised =>
          /\ pc = "done"
          /\ result = None
          /\ called = <<"extract_text">>
          /\ fields = <<>>
          /\ issuer = None
    /\ (pc = "done" /\ ~raised) =>
          /\ result # None
          /\ DOMAIN result[1] = ResultKeys
          /\ called = ParseCalls

\* parse() has ended with the error of extract_text
C8_Witness == pc = "done" /\ raised /\ ~pdf.readable /\ called = <<"extract_text">>

\* C9: parsing an empty, successfully extracted text yields issuer "Unknown",
\* the four optional fields absent and no transaction, and raises no error.
C9_EmptyTextResult ==
    (pc = "done" /\ pdf.readable /\ text_content = "") =>
        /\ ~raised
        /\ result = Some([issuer |-> "Unknown",
                          card_last_four |-> None,
                          billing_cycle |-> None,
                          payment_due_date |-> None,
                          total_amount_due |-> None,
                          transactions |-> <<>>])

\* the document without pages has been parsed
C9_Witness ==
    /\ pc = "done" /\ pdf.readable /\ pdf.pages = <<>>
    /\ text_content = "" /\ result # None

\* C10: parsing the scenario statement yields issuer "American Express",
\* card_last_four "1234", the billing cycle 01/01/2024 to 31/01/2024, the due
\* date 15/02/2024, the total 12345.67 and exactly one transaction,
\* 05/01/2024 COFFEE SHOP 450.00.
C10_ScenarioResult ==
    (Returned /\ pdf.pages = <<ScenarioText>>) =>
        result = Some([issuer |-> "American Express",
                       card_last_four |-> Some("1234"),
                       billing_cycle |-> Some([start_date |-> "01/01/2024",
                                               end_date |-> "31/01/2024"]),
                       payment_due_date |-> Some("15/02/2024"),
                       total_amount_due |-> Some("12345.67"),
                       transactions |-> <<[date |-> "05/01/2024",
                                           description |-> "COFFEE SHOP",
                                           amount |-> "450.00"]>>])

\* C11: parsing the same text twice, with a new parser or again with the same
\* one, yields identical results: every value a later parse() computes, and
\* the dict it returns, equal those of the first parse() of the document,
\* whatever text_content and issuer the earlier call left.
C11_SameTextSameResult ==
    first # None =>
        /\ \A key \in DOMAIN fields : fields[key] = first[1][key]
        /\ result # None => result = first

\* a later parse() of the same document has computed every field and is about
\* to return exactly what the first parse() returned
C11_Witness ==
    /\ first # None
    /\ pc = "return"
    /\ fields = first[1]
    /\ first[1].transactions # <<>>
    /\ first[1].issuer # "Unknown"

AllDigits(s) == \A i \in 1..Len(s) : Char(s, i) \in Digit

\* one or more digits, a decimal point, then exactly two digits
TwoDecimalPlaces(s) ==
    /\ Len(s) >= 4
    /\ AllDigits(SubSeq(s, 1, Len(s) - 3))
    /\ Char(s, Len(s) - 2) = "."
    /\ AllDigits(SubSeq(s, Len(s) - 1, Len(s)))

\* zero or more digits, an optional decimal point, then exactly two digits
EndsInTwoDigits(s) ==
    /\ Len(s) >= 2
    /\ AllDigits(SubSeq(s, Len(s) - 1, Len(s)))
    /\ LET before == SubSeq(s, 1, Len(s) - 2)
       IN  \/ AllDigits(before)
           \/ /\ before # ""
              /\ Char(before, Len(before)) = "."
              /\ AllDigits(SubSeq(before, 1, Len(before) - 1))

====
